---- MODULE Spec2Model ----
(***************************************************************************)
(* Field data collector: the service layer of app/services.py              *)
(* (AuthService, PhotoService, DataCollectionService) over the tables of  *)
(* app/models.py, the session layer of app/auth.py, the dashboard form of *)
(* app/dashboard.py and the seeding of app/seed_data.py.                  *)
(*                                                                         *)
(* Strings are sequences of one-character strings, so that split, suffix   *)
(* and concatenation are computed the way Python computes them.            *)
(* Optional values are sequences of length 0 (None) or 1.                  *)
(***************************************************************************)
EXTENDS Integers, Sequences, FiniteSets, TLC

VARIABLES
    hpw,        \* the password given to hash_password in this run
    hcalls,     \* the hash_password(hpw) calls made so far: [salt, out]
    vres,       \* the last verify_password call: None or <<[candidate, stored, raised, value]>>
    users,      \* the users table: rows in insertion order
    inflight,   \* the create_user calls between their select and their commit: how many per [uc, existed]
    now,        \* the clock datetime.utcnow() reads
    last,       \* the last completed AuthService call (or row update): arguments, result, users before
    upload_dir, \* whether the upload directory exists
    files,      \* the files of the upload directory: storage filename -> content
    photos,     \* the photos table: rows in insertion order
    plast,      \* the last save_photo call: arguments, what the storage did, result, state before
    saved,      \* the content each row of photos was saved with (file_content of its call)
    collections, \* the data_collections table: rows in insertion order
    clast,      \* the last DataCollectionService call: arguments, clock reading, result, table before
    nlast,      \* the last PhotoService filename call: arguments and results
    session,    \* app.storage.user of the one browser session: key -> value
    slast,      \* the last page request or login-form step: arguments, result, session and users before
    uploaded_photo_id, \* the uploaded_photo_id of the dashboard form: None or <<id>>
    flast       \* the last dashboard form handler: arguments, result, photo id before

hashVars == <<hpw, hcalls, vres>>
authVars == <<users, inflight, last>>
photoVars == <<upload_dir, files, photos, plast, saved>>
dataVars == <<collections, clast>>
nameVars == <<nlast>>
sessionVars == <<session, slast>>
formVars == <<uploaded_photo_id, flast>>
uiVars == <<nameVars, sessionVars, formVars>>
vars == <<hpw, hcalls, vres, users, inflight, now, last,
          upload_dir, files, photos, plast, saved, collections, clast,
          nlast, session, slast, uploaded_photo_id, flast>>

None == <<>>
Some(x) == <<x>>

----------------------------------------------------------------------------
(* Bounds *)

\* length of a salt (secrets.token_hex(16) draws 32 hex characters)
SaltLen == 1
\* longest password handed to the hasher
MaxPwLen == 1
\* longest arbitrary stored hash value handed to verify_password
MaxStoredLen == 2
\* hash_password calls per run
MaxHashCalls == 2
\* create_user calls in progress at once
MaxInflight == 2
\* last reading of the clock
MaxTime == 1
\* values secrets.token_hex(8) can draw for a storage filename
NumTokens == 2
\* rows of the photos table
MaxPhotos == 2
\* rows of the data_collections table
MaxCollections == 2
\* redirects counted in a row
MaxHops == 3

----------------------------------------------------------------------------
(* Strings *)

SEP == "$"
HexChars == {"0", "1"}
PwChars == {"a", "$"}

StringsUpTo(chars, n) == UNION {[1..k -> chars] : k \in 0..n}

Salts == [1..SaltLen -> HexChars]
\* the salts drawn in the runs of AuthService: all zeros, all ones
AuthSalts == {[i \in 1..SaltLen |-> c] : c \in HexChars}
HashPasswords == StringsUpTo(PwChars, MaxPwLen)
StoredStrings == StringsUpTo({"0", "$"}, MaxStoredLen)

\* str.split(sep): the parts between the separators, always at least one part
RECURSIVE Split(_, _)
Split(s, sep) ==
    IF \A i \in 1..Len(s) : s[i] # sep
    THEN <<s>>
    ELSE LET i == CHOOSE k \in 1..Len(s) :
                      s[k] = sep /\ \A j \in 1..(k - 1) : s[j] # sep
         IN <<SubSeq(s, 1, i - 1)>> \o Split(SubSeq(s, i + 1, Len(s)), sep)

CountSep(s) == Cardinality({i \in 1..Len(s) : s[i] = SEP})

----------------------------------------------------------------------------
(* Password hasher *)

\* One hex digit per input character: the digest as an injective function of
\* its input whose output holds hex digits only (never the separator).
HexOf(c) == CASE c = "$" -> "d"
              [] OTHER -> c

sha256_hexdigest(s) == [i \in 1..Len(s) |-> HexOf(s[i])]

hash_password_nosalt(password, salt) ==
    <<SEP>> \o sha256_hexdigest(password)

hash_password(password, salt) ==
    salt \o <<SEP>> \o sha256_hexdigest(password \o salt)

verify_password_uncaught(password, password_hash) ==
    LET parts == Split(password_hash, SEP) IN
    IF Len(parts) # 2
    THEN [raised |-> TRUE, value |-> FALSE]
    ELSE [raised |-> FALSE,
          value |-> sha256_hexdigest(password \o parts[1]) = parts[2]]

verify_password_salt_first(password, password_hash) ==
    LET parts == Split(password_hash, SEP) IN
    IF Len(parts) # 2
    THEN [raised |-> FALSE, value |-> FALSE]
    ELSE [raised |-> FALSE,
          value |-> sha256_hexdigest(parts[1] \o password) = parts[2]]

\* [raised, value]: unpacking a split of other than two parts raises
\* ValueError, which the except clause turns into False.
verify_password(password, password_hash) ==
    LET parts == Split(password_hash, SEP) IN
    IF Len(parts) # 2
    THEN [raised |-> FALSE, value |-> FALSE]
    ELSE [raised |-> FALSE,
          value |-> sha256_hexdigest(password \o parts[1]) = parts[2]]

----------------------------------------------------------------------------
(* Users table and AuthService *)

Min(S) == CHOOSE x \in S : \A y \in S : x <= y

\* UserCreate inputs: two registrations of one username and one of another
UserCreates ==
    { [username |-> "alice", password |-> <<"a">>, full_name |-> "User One",
       email |-> Some("one@example.com")],
      [username |-> "alice", password |-> <<"$">>, full_name |-> "User Two",
       email |-> None],
      [username |-> "bob", password |-> <<"a">>, full_name |-> "Bob",
       email |-> None] }

\* UserLogin inputs
UserLogins ==
    [username : {"alice", "bob"}, password : {<<"a">>, <<"$">>}]

\* a call in progress: its argument, and whether its username was stored when it was made
InflightKeys == [uc : UserCreates, existed : BOOLEAN]

RECURSIVE SumOver(_, _)
SumOver(f, S) ==
    IF S = {} THEN 0
    ELSE LET k == CHOOSE x \in S : TRUE IN f[k] + SumOver(f, S \ {k})

NoCall ==
    [op |-> "none", username |-> "", password |-> <<>>, out |-> "return", val |-> None,
     pre |-> <<>>, t0 |-> 0, existed |-> FALSE]

InitAuthVars ==
    /\ users = <<>>
    /\ inflight = [k \in InflightKeys |-> 0]
    /\ now = 0
    /\ last = NoCall

\* select(User).where(User.username == username): the matching row numbers
RowsByUsername(table, username) ==
    {i \in DOMAIN table : table[i].username = username}

\* .first() of that select, as an Optional row number
FirstByUsername(table, username) ==
    IF RowsByUsername(table, username) = {}
    THEN None
    ELSE Some(Min(RowsByUsername(table, username)))

UniqueViolation_unenforced(table, username) == FALSE

\* the UNIQUE index on users.username, checked by the store at commit
UniqueViolation(table, username) ==
    RowsByUsername(table, username) # {}

create_user_existing_none(table, uc) == None

\* the row create_user finds before it inserts
create_user_existing(table, uc) ==
    FirstByUsername(table, uc.username)

\* User(...): a new active row, id assigned by the table
NewUser(table, uc, salt, t) ==
    [id |-> Len(table) + 1,
     username |-> uc.username,
     password_hash |-> hash_password(uc.password, salt),
     full_name |-> uc.full_name,
     email |-> uc.email,
     is_active |-> TRUE,
     created_at |-> t,
     last_login |-> None]

\* session.add(user); session.commit(); session.refresh(user); return user
\* commit raises IntegrityError when the username is already in the table,
\* and nothing in create_user catches it
create_user_insert(table, uc, salt, t) ==
    IF UniqueViolation(table, uc.username)
    THEN [users |-> table, out |-> "raise", val |-> None]
    ELSE [users |-> Append(table, NewUser(table, uc, salt, t)),
          out |-> "return",
          val |-> Some(NewUser(table, uc, salt, t))]

authenticate_user_skip_active(table, login, t) ==
    LET hit == FirstByUsername(table, login.username) IN
    IF hit = None
    THEN [users |-> table, out |-> "return", val |-> None]
    ELSE LET i == hit[1]
             stamped == [table[i] EXCEPT !.last_login = Some(t)]
         IN IF ~verify_password(login.password, table[i].password_hash).value
            THEN [users |-> table, out |-> "return", val |-> None]
            ELSE [users |-> [table EXCEPT ![i] = stamped],
                  out |-> "return", val |-> Some(stamped)]

authenticate_user_no_commit(table, login, t) ==
    LET hit == FirstByUsername(table, login.username) IN
    IF hit = None
    THEN [users |-> table, out |-> "return", val |-> None]
    ELSE LET i == hit[1]
             stamped == [table[i] EXCEPT !.last_login = Some(t)]
         IN IF ~table[i].is_active
            THEN [users |-> table, out |-> "return", val |-> None]
            ELSE IF ~verify_password(login.password, table[i].password_hash).value
            THEN [users |-> table, out |-> "return", val |-> None]
            ELSE [users |-> table, out |-> "return", val |-> Some(stamped)]

\* authenticate_user at clock reading t: the table afterwards and the result
authenticate_user(table, login, t) ==
    LET hit == FirstByUsername(table, login.username) IN
    IF hit = None
    THEN [users |-> table, out |-> "return", val |-> None]
    ELSE LET i == hit[1]
             stamped == [table[i] EXCEPT !.last_login = Some(t)]
         IN IF ~table[i].is_active
            THEN [users |-> table, out |-> "return", val |-> None]
            ELSE IF ~verify_password(login.password, table[i].password_hash).value
            THEN [users |-> table, out |-> "return", val |-> None]
            ELSE [users |-> [table EXCEPT ![i] = stamped],
                  out |-> "return", val |-> Some(stamped)]

\* the clock readings a call that starts now can make
ClockReadings == {t \in now..(now + 1) : t <= MaxTime}

\* create_user up to its early return: select the username, return None if found
CreateUserCheck(uc) ==
    /\ SumOver(inflight, InflightKeys) < MaxInflight
    /\ LET existed == RowsByUsername(users, uc.username) # {} IN
       IF create_user_existing(users, uc) # None
       THEN /\ last' = [op |-> "create_user", username |-> uc.username,
                        password |-> uc.password,
                        out |-> "return", val |-> None, pre |-> users,
                        t0 |-> now, existed |-> existed]
            /\ UNCHANGED inflight
       ELSE /\ inflight' = [inflight EXCEPT
                               ![[uc |-> uc, existed |-> existed]] = @ + 1]
            /\ UNCHANGED last
    /\ UNCHANGED <<users, now>>

\* the rest of create_user: hash the password, add the row, commit
CreateUserInsert(k) ==
    /\ inflight[k] > 0
    /\ \E salt \in AuthSalts, t \in ClockReadings :
         LET r == create_user_insert(users, k.uc, salt, t) IN
         /\ users' = r.users
         /\ now' = t
         /\ last' = [op |-> "create_user", username |-> k.uc.username,
                     password |-> k.uc.password,
                     out |-> r.out, val |-> r.val, pre |-> users, t0 |-> now,
                     existed |-> k.existed]
    /\ inflight' = [inflight EXCEPT ![k] = @ - 1]

AuthenticateUser(login) ==
    /\ \E t \in ClockReadings :
         LET r == authenticate_user(users, login, t) IN
         /\ users' = r.users
         /\ now' = IF r.val = None THEN now ELSE t
         /\ last' = [op |-> "authenticate_user", username |-> login.username,
                     password |-> login.password,
                     out |-> r.out, val |-> r.val, pre |-> users, t0 |-> now,
                     existed |-> RowsByUsername(users, login.username) # {}]
    /\ UNCHANGED inflight

\* the row update of the tests: user.is_active = False, add, commit
Deactivate(i) ==
    /\ i \in DOMAIN users
    /\ users[i].is_active
    /\ users' = [users EXCEPT ![i].is_active = FALSE]
    /\ last' = [op |-> "deactivate", username |-> users[i].username,
                password |-> <<>>,
                out |-> "return", val |-> None, pre |-> users, t0 |-> now,
                existed |-> TRUE]
    /\ UNCHANGED <<inflight, now>>

----------------------------------------------------------------------------
(* PhotoService *)

MAX_FILE_SIZE == 10 * 1024 * 1024

ALLOWED_EXTENSIONS ==
    { <<".", "j", "p", "g">>, <<".", "j", "p", "e", "g">>,
      <<".", "p", "n", "g">>, <<".", "g", "i", "f">>,
      <<".", "w", "e", "b", "p">> }

\* str.lower() on the characters that occur
LowerChar(c) ==
    CASE c = "A" -> "a" [] c = "B" -> "b" [] c = "E" -> "e" [] c = "F" -> "f"
      [] c = "G" -> "g" [] c = "I" -> "i" [] c = "J" -> "j" [] c = "N" -> "n"
      [] c = "P" -> "p" [] c = "T" -> "t" [] c = "W" -> "w" [] c = "X" -> "x"
      [] OTHER -> c

Lower(s) == [i \in 1..Len(s) |-> LowerChar(s[i])]

\* Path(filename).name: the last path component that is not empty or "."
PathName(filename) ==
    LET parts == Split(filename, "/")
        kept == {i \in DOMAIN parts : parts[i] # <<>> /\ parts[i] # <<".">>}
    IN IF kept = {} THEN <<>>
       ELSE parts[CHOOSE i \in kept : \A j \in kept : j <= i]

\* Path(filename).suffix: from the last dot of the name, unless that dot is
\* the first or the last character of the name
PathSuffix(filename) ==
    LET name == PathName(filename)
        dots == {i \in DOMAIN name : name[i] = "."}
    IN IF dots = {} THEN <<>>
       ELSE LET i == CHOOSE d \in dots : \A e \in dots : e <= d
            IN IF 1 < i /\ i < Len(name)
               THEN SubSeq(name, i, Len(name))
               ELSE <<>>

is_allowed_file_case_sensitive(filename) ==
    PathSuffix(filename) \in ALLOWED_EXTENSIONS

is_allowed_file(filename) ==
    Lower(PathSuffix(filename)) \in ALLOWED_EXTENSIONS

\* <timestamp>_<unique_id><suffix>: the three fields have fixed widths, so
\* the name is kept as the triple it is formatted from
generate_unique_filename_no_token(original_filename, t, token) ==
    [timestamp |-> t, unique_id |-> 1,
     suffix |-> Lower(PathSuffix(original_filename))]

generate_unique_filename(original_filename, t, token) ==
    [timestamp |-> t, unique_id |-> token,
     suffix |-> Lower(PathSuffix(original_filename))]

too_large_ge(file_content) == file_content.len >= MAX_FILE_SIZE

\* len(file_content) > PhotoService.MAX_FILE_SIZE
too_large(file_content) == file_content.len > MAX_FILE_SIZE

Tokens == 1..NumTokens

\* uploads: content (its length, and what tells two contents of one length
\* apart), original filename, MIME type
Uploads ==
    { [content |-> [len |-> 1, body |-> "x"],
       original_filename |-> <<"a", ".", "j", "p", "g">>,
       mime_type |-> "image/jpeg"],
      [content |-> [len |-> MAX_FILE_SIZE, body |-> "y"],
       original_filename |-> <<"d", "/", "B", ".", "P", "N", "G">>,
       mime_type |-> "image/png"],
      [content |-> [len |-> 0, body |-> ""],
       original_filename |-> <<"a", ".", "j", "p", "g">>,
       mime_type |-> "image/jpeg"],
      [content |-> [len |-> MAX_FILE_SIZE + 1, body |-> "x"],
       original_filename |-> <<"a", ".", "j", "p", "g">>,
       mime_type |-> "image/jpeg"],
      [content |-> [len |-> 1, body |-> "x"],
       original_filename |-> <<"a", ".", "t", "x", "t">>,
       mime_type |-> "text/plain"],
      [content |-> [len |-> 1, body |-> "x"],
       original_filename |-> <<"a">>,
       mime_type |-> "image/jpeg"] }

\* what the storage does once the directory is there: everything works,
\* write_bytes raises before the file is opened, write_bytes raises with part
\* of the content written, the commit of the photo row raises, the refresh
\* of the committed row raises
IoOutcomes ==
    {"ok", "write_fails", "write_fails_partial", "commit_fails",
     "refresh_fails"}

NoFile == [len |-> 0, body |-> ""]

\* file_path.write_bytes(file_content)
write_bytes(fs, name, file_content, io) ==
    CASE io = "write_fails" -> fs
      [] io = "write_fails_partial" ->
            [n \in DOMAIN fs \cup {name} |-> IF n = name THEN NoFile ELSE fs[n]]
      [] OTHER ->
            [n \in DOMAIN fs \cup {name} |->
                IF n = name THEN file_content ELSE fs[n]]

cleanup_skipped(fs, name) == fs

\* if file_path.exists(): file_path.unlink()
cleanup(fs, name) ==
    [n \in DOMAIN fs \ {name} |-> fs[n]]

NewPhoto_size_of_name(table, name, up, t) ==
    [id |-> Len(table) + 1,
     filename |-> name,
     original_filename |-> up.original_filename,
     file_path |-> [dir |-> "uploads/photos", name |-> name],
     file_size |-> Len(up.original_filename),
     mime_type |-> up.mime_type,
     uploaded_at |-> t]

\* Photo(...): the row save_photo adds, id assigned by the table
NewPhoto(table, name, up, t) ==
    [id |-> Len(table) + 1,
     filename |-> name,
     original_filename |-> up.original_filename,
     file_path |-> [dir |-> "uploads/photos", name |-> name],
     file_size |-> up.content.len,
     mime_type |-> up.mime_type,
     uploaded_at |-> t]

\* io: what the storage did in the steps the call reached ("unused": none);
\* draw: the second read and the token drawn for the filename, if any
PhotoResult(dir, fs, table, out, val, path, io, draw) ==
    [upload_dir |-> dir, files |-> fs, photos |-> table,
     out |-> out, val |-> val, path |-> path, io |-> io, draw |-> draw]

\* save_photo: the possible outcomes of one call (the directory, files and
\* table afterwards, the result, the path used), over whether mkdir raises,
\* the clock reading, the token drawn and what the storage does.
\* mkdir is called outside the try, so its exception leaves save_photo; every
\* exception inside the try reaches the handler, which unlinks the file when
\* it exists, logs, notifies and returns None.
save_photo(dir, fs, table, up, readings) ==
    IF ~is_allowed_file(up.original_filename)
    THEN {PhotoResult(dir, fs, table, "return", None, None, "unused", None)}
    ELSE IF too_large(up.content)
    THEN {PhotoResult(dir, fs, table, "return", None, None, "unused", None)}
    ELSE {PhotoResult(dir, fs, table, "raise", None, None, "mkdir_fails", None)}
         \cup
         { LET name == generate_unique_filename(up.original_filename, t, token)
               written == write_bytes(fs, name, up.content, io)
               photo == NewPhoto(table, name, up, t)
               draw == Some([t |-> t, token |-> token])
           IN IF io = "ok"
              THEN PhotoResult(TRUE, written, Append(table, photo),
                               "return", Some(photo), Some(name), io, draw)
              ELSE IF io = "refresh_fails"
              THEN PhotoResult(TRUE, cleanup(written, name),
                               Append(table, photo),
                               "return", None, Some(name), io, draw)
              ELSE PhotoResult(TRUE, cleanup(written, name), table,
                               "return", None, Some(name), io, draw)
           : t \in readings, token \in Tokens, io \in IoOutcomes }

NoPhotoCall ==
    [op |-> "none", up |-> CHOOSE u \in Uploads : TRUE, io |-> "unused",
     out |-> "return", val |-> None, path |-> None, draw |-> None,
     pre_dir |-> FALSE, pre_files |-> <<>>, pre_photos |-> <<>>]

InitPhotoVars ==
    /\ upload_dir = FALSE
    /\ files = <<>>
    /\ photos = <<>>
    /\ plast = NoPhotoCall
    /\ saved = <<>>

SavePhoto(up) ==
    /\ Len(photos) < MaxPhotos
    /\ \E r \in save_photo(upload_dir, files, photos, up, ClockReadings) :
         /\ upload_dir' = r.upload_dir
         /\ files' = r.files
         /\ photos' = r.photos
         /\ now' = IF r.path = None THEN now ELSE r.path[1].timestamp
         /\ plast' = [op |-> "save_photo", up |-> up, io |-> r.io,
                      out |-> r.out, val |-> r.val, path |-> r.path,
                      draw |-> r.draw,
                      pre_dir |-> upload_dir, pre_files |-> files,
                      pre_photos |-> photos]
         /\ saved' = IF Len(r.photos) > Len(photos)
                      THEN Append(saved, up.content)
                      ELSE saved

----------------------------------------------------------------------------
(* DataCollectionService *)

\* session.get(Model, id): the row with the primary key, or None
GetById(table, id) ==
    IF \E i \in DOMAIN table : table[i].id = id
    THEN Some(CHOOSE i \in DOMAIN table : table[i].id = id)
    ELSE None

\* the primary keys of a table
Ids(table) == {table[i].id : i \in DOMAIN table}

\* the user_id arguments
UserIds == 1..2

\* DataCollectionCreate values: without a photo, with photo 1, with photo 2
CollectionCreates ==
    { [customer_name |-> "Acme", description |-> "visit",
       photo_id |-> None, location_data |-> None, device_info |-> None],
      [customer_name |-> "Bolt", description |-> "repair",
       photo_id |-> Some(1), location_data |-> Some("gps"),
       device_info |-> Some("phone")],
      [customer_name |-> "Acme", description |-> "visit",
       photo_id |-> Some(2), location_data |-> None, device_info |-> None] }

\* what the database does once the row is added: everything works, the commit
\* raises, the refresh of the committed row raises
CommitOutcomes == {"ok", "commit_fails", "refresh_fails"}

NewCollection_photo_dropped(table, user_id, collection_data, t) ==
    [id |-> Len(table) + 1,
     customer_name |-> collection_data.customer_name,
     description |-> collection_data.description,
     submission_date |-> t,
     user_id |-> user_id,
     photo_id |-> None,
     location_data |-> collection_data.location_data,
     device_info |-> collection_data.device_info,
     is_synchronized |-> FALSE,
     sync_error |-> None]

\* DataCollection(...): the row create_collection adds; submission_date,
\* is_synchronized and sync_error take their defaults, id is assigned by the
\* table
NewCollection(table, user_id, collection_data, t) ==
    [id |-> Len(table) + 1,
     customer_name |-> collection_data.customer_name,
     description |-> collection_data.description,
     submission_date |-> t,
     user_id |-> user_id,
     photo_id |-> collection_data.photo_id,
     location_data |-> collection_data.location_data,
     device_info |-> collection_data.device_info,
     is_synchronized |-> FALSE,
     sync_error |-> None]

create_collection_photo_unchecked(utable, ptable, user_id, collection_data) ==
    GetById(utable, user_id) # None

create_collection_user_unchecked(utable, ptable, user_id, collection_data) ==
    collection_data.photo_id # None
        => GetById(ptable, collection_data.photo_id[1]) # None

\* create_collection up to the construction of the row: the user exists, and
\* the photo exists when one is given
create_collection_valid(utable, ptable, user_id, collection_data) ==
    /\ GetById(utable, user_id) # None
    /\ collection_data.photo_id # None
         => GetById(ptable, collection_data.photo_id[1]) # None

create_collection_overwrites(utable, ptable, table, user_id, collection_data, t, io) ==
    IF ~create_collection_valid(utable, ptable, user_id, collection_data)
    THEN [collections |-> table, out |-> "return", val |-> None, io |-> "unused"]
    ELSE LET collection == NewCollection(table, user_id, collection_data, t) IN
         IF table = <<>>
         THEN [collections |-> <<collection>>,
               out |-> "return", val |-> Some(collection), io |-> io]
         ELSE [collections |-> [table EXCEPT ![Len(table)] =
                                   [collection EXCEPT !.id = Len(table)]],
               out |-> "return", val |-> Some(collection), io |-> io]

\* create_collection at clock reading t with the database doing io: the table
\* afterwards and the result. Nothing catches an exception of the commit or
\* the refresh.
create_collection(utable, ptable, table, user_id, collection_data, t, io) ==
    IF ~create_collection_valid(utable, ptable, user_id, collection_data)
    THEN [collections |-> table, out |-> "return", val |-> None, io |-> "unused"]
    ELSE LET collection == NewCollection(table, user_id, collection_data, t) IN
         CASE io = "ok" ->
                [collections |-> Append(table, collection),
                 out |-> "return", val |-> Some(collection), io |-> io]
           [] io = "commit_fails" ->
                [collections |-> table, out |-> "raise", val |-> None, io |-> io]
           [] OTHER ->
                [collections |-> Append(table, collection),
                 out |-> "raise", val |-> None, io |-> io]

NoDataCall ==
    [op |-> "none", user_id |-> 0,
     data |-> CHOOSE d \in CollectionCreates : TRUE,
     limit |-> 0, io |-> "unused", out |-> "return", val |-> None,
     t0 |-> 0, t |-> 0, pre |-> <<>>, uids |-> {}, pids |-> {}]

InitDataVars ==
    /\ collections = <<>>
    /\ clast = NoDataCall

CreateCollection(user_id, collection_data) ==
    /\ Len(collections) < MaxCollections
    /\ \E t \in ClockReadings, io \in CommitOutcomes :
         LET r == create_collection(users, photos, collections, user_id,
                                    collection_data, t, io)
         IN /\ r.io = "unused" => (io = "ok" /\ t = now)
            /\ collections' = r.collections
            /\ now' = IF r.io = "unused" THEN now ELSE t
            /\ clast' = [op |-> "create_collection", user_id |-> user_id,
                         data |-> collection_data, limit |-> 0, io |-> r.io,
                         out |-> r.out, val |-> r.val, t0 |-> now,
                         t |-> now', pre |-> collections,
                         uids |-> Ids(users), pids |-> Ids(photos)]

(* datetime: the clock counts steps of twelve hours; reading 0 is Monday    *)
(* 2025-09-29 00:00, and the readings used stay within the year 2025        *)

TicksPerDay == 2
EpochYear == 2025
\* 2025-09-29 is day 272 of its year
EpochDayOfYear == 272
MonthLengths == <<31, 28, 31, 30, 31, 30, 31, 31, 30, 31, 30, 31>>

\* the day a reading falls on, counted from the day of reading 0
DayOf(t) == t \div TicksPerDay

\* datetime.weekday(): Monday is 0
weekday(t) == DayOf(t) % 7

RECURSIVE MonthAndDay(_, _)
MonthAndDay(day_of_year, m) ==
    IF day_of_year <= MonthLengths[m]
    THEN [month |-> m, day |-> day_of_year]
    ELSE MonthAndDay(day_of_year - MonthLengths[m], m + 1)

\* now.year, now.month, now.day, now.hour
DateOf(t) ==
    LET md == MonthAndDay(EpochDayOfYear + DayOf(t), 1)
    IN [year |-> EpochYear, month |-> md.month, day |-> md.day,
        hour |-> (t % TicksPerDay) * (24 \div TicksPerDay)]

RECURSIVE DaysBeforeMonth(_)
DaysBeforeMonth(m) ==
    IF m = 1 THEN 0 ELSE DaysBeforeMonth(m - 1) + MonthLengths[m - 1]

\* datetime(year, month, day): midnight of that date, as a reading
datetime(year, month, day) ==
    (DaysBeforeMonth(month) + day - EpochDayOfYear) * TicksPerDay

\* datetime.isoformat(): YYYY-MM-DDTHH:MM:SS
isoformat(t) ==
    LET d == DateOf(t)
    IN <<d.year, "-", d.month, "-", d.day, "T", d.hour, ":", 0, ":", 0>>

\* today_start = datetime(now.year, now.month, now.day)
today_start(t) == datetime(DateOf(t).year, DateOf(t).month, DateOf(t).day)

\* week_start = now - timedelta(days=now.weekday())
week_start(t) == t - weekday(t) * TicksPerDay

\* month_start = datetime(now.year, now.month, 1)
month_start(t) == datetime(DateOf(t).year, DateOf(t).month, 1)

\* the rows of a user, in table order
ByUser(table, user_id) ==
    SelectSeq(table, LAMBDA c : c.user_id = user_id)

Max(S) == CHOOSE x \in S : \A y \in S : x >= y

\* get_dashboard_stats at clock reading t
get_dashboard_stats(table, user_id, t) ==
    LET total_collections == ByUser(table, user_id)
        collections_today ==
            SelectSeq(total_collections,
                      LAMBDA c : c.submission_date >= today_start(t))
        collections_this_week ==
            SelectSeq(total_collections,
                      LAMBDA c : c.submission_date >= week_start(t))
        collections_this_month ==
            SelectSeq(total_collections,
                      LAMBDA c : c.submission_date >= month_start(t))
        pending_sync ==
            SelectSeq(total_collections, LAMBDA c : ~c.is_synchronized)
        last_submission ==
            IF total_collections # <<>>
            THEN Some(isoformat(Max({total_collections[i].submission_date :
                                       i \in DOMAIN total_collections})))
            ELSE None
    IN [total_collections |-> Len(total_collections),
        collections_today |-> Len(collections_today),
        collections_this_week |-> Len(collections_this_week),
        collections_this_month |-> Len(collections_this_month),
        pending_sync |-> Len(pending_sync),
        last_submission |-> last_submission]

\* the limit arguments: none, fewer than the rows, the dashboard's and the
\* default
Limits == {0, 1, 5, 100}

\* ORDER BY submission_date DESC: the orders the database may return the
\* rows in (rows of equal submission_date in any order)
OrdersDesc(rows) ==
    {f \in [DOMAIN rows -> DOMAIN rows] :
        /\ \A i, j \in DOMAIN rows : i # j => f[i] # f[j]
        /\ \A i \in DOMAIN rows :
             i < Len(rows)
               => rows[f[i]].submission_date >= rows[f[i + 1]].submission_date}

OrdersAsc(rows) ==
    {f \in [DOMAIN rows -> DOMAIN rows] :
        /\ \A i, j \in DOMAIN rows : i # j => f[i] # f[j]
        /\ \A i \in DOMAIN rows :
             i < Len(rows)
               => rows[f[i]].submission_date <= rows[f[i + 1]].submission_date}

get_collections_by_user_asc(table, user_id, limit) ==
    LET rows == ByUser(table, user_id)
        n == IF limit < Len(rows) THEN limit ELSE Len(rows)
    IN {[k \in 1..n |-> rows[f[k]]] : f \in OrdersAsc(rows)}

\* get_collections_by_user: the lists the call may return
get_collections_by_user(table, user_id, limit) ==
    LET rows == ByUser(table, user_id)
        n == IF limit < Len(rows) THEN limit ELSE Len(rows)
    IN {[k \in 1..n |-> rows[f[k]]] : f \in OrdersDesc(rows)}

GetCollectionsByUser(user_id, limit) ==
    /\ \E r \in get_collections_by_user(collections, user_id, limit) :
         clast' = [op |-> "get_collections_by_user", user_id |-> user_id,
                   data |-> NoDataCall.data, limit |-> limit, io |-> "unused",
                   out |-> "return", val |-> r, t0 |-> now, t |-> now,
                   pre |-> collections,
                   uids |-> Ids(users), pids |-> Ids(photos)]
    /\ UNCHANGED <<collections, now>>

GetDashboardStats(user_id) ==
    /\ clast' = [op |-> "get_dashboard_stats", user_id |-> user_id,
                 data |-> NoDataCall.data, limit |-> 0, io |-> "unused",
                 out |-> "return",
                 val |-> Some(get_dashboard_stats(collections, user_id, now)),
                 t0 |-> now, t |-> now, pre |-> collections,
                 uids |-> Ids(users), pids |-> Ids(photos)]
    /\ UNCHANGED <<collections, now>>

----------------------------------------------------------------------------
(* PhotoService: filenames and storage paths as strings *)

UPLOAD_DIR == <<"u", "p", "l", "o", "a", "d", "s", "/", "p", "h", "o", "t", "o", "s">>

DigitChars == <<"0", "1", "2", "3", "4", "5", "6", "7", "8", "9",
                "a", "b", "c", "d", "e", "f">>

\* n written in the given base with the given number of digits
RECURSIVE Digits(_, _, _)
Digits(n, base, width) ==
    IF width = 0 THEN <<>>
    ELSE Append(Digits(n \div base, base, width - 1), DigitChars[(n % base) + 1])

\* datetime.strftime("%Y%m%d_%H%M%S")
strftime(t) ==
    LET d == DateOf(t)
    IN Digits(d.year, 10, 4) \o Digits(d.month, 10, 2) \o Digits(d.day, 10, 2)
       \o <<"_">> \o Digits(d.hour, 10, 2) \o Digits(0, 10, 2) \o Digits(0, 10, 2)

\* secrets.token_hex: the token in hexadecimal digits, two for each byte
token_hex(token) == Digits(token, 16, 2)

\* f"{timestamp}_{unique_id}{suffix}"
format_filename(name) ==
    strftime(name.timestamp) \o <<"_">> \o token_hex(name.unique_id) \o name.suffix

\* Path(a) / b: b on its own when it is absolute
path_join(a, b) ==
    IF b # <<>> /\ b[1] = "/" THEN b ELSE a \o <<"/">> \o b

\* Path.parts without the root: empty components and "." are dropped, ".." is kept
PathParts(path) ==
    SelectSeq(Split(path, "/"), LAMBDA part : part # <<>> /\ part # <<".">>)

storage_path_original_name(original_filename, t, token) ==
    path_join(UPLOAD_DIR, original_filename)

\* file_path = Path(UPLOAD_DIR) / generate_unique_filename(original_filename)
storage_path(original_filename, t, token) ==
    path_join(UPLOAD_DIR,
              format_filename(generate_unique_filename(original_filename, t, token)))

\* filenames: a directory prefix, a stem, an extension and a tail
NamePrefixes == { <<>>, <<"d", "/">>, <<".", ".", "/">>, <<"/">> }
NameStems == { <<>>, <<"a">>, <<".">>, <<"A", ".", "b">> }
NameExtensions ==
    { <<>>, <<".", "j", "p", "g">>, <<".", "J", "P", "G">>,
      <<".", "j", "p", "e", "g">>, <<".", "P", "n", "G">>,
      <<".", "g", "i", "f">>, <<".", "w", "e", "b", "p">>,
      <<".", "t", "x", "t">>, <<"j", "p", "g">> }
NameTails == { <<>>, <<"/">>, <<".">>, <<"/", ".", ".">> }
Filenames ==
    { p \o s \o x \o e : p \in NamePrefixes, s \in NameStems,
                         x \in NameExtensions, e \in NameTails }
OtherFilenames ==
    { <<"a", ".", "j", "p", "g">>, <<".", ".", "/", "B", ".", "J", "P", "G">>,
      <<"b", ".", "p", "n", "g">>, <<"b">>, <<"/", "x", ".", "g", "i", "f">> }

NoNameCall ==
    [op |-> "none", original_filename |-> <<>>, other_filename |-> <<>>,
     t |-> 0, token |-> 0, allowed |-> FALSE,
     name |-> <<>>, other_name |-> <<>>, path |-> <<>>]

InitNameVars == nlast = NoNameCall

\* the arguments of the calls of a run: two filenames, a clock reading, a token
NameInputs ==
    { [NoNameCall EXCEPT !.original_filename = f, !.other_filename = g,
                         !.t = t, !.token = token] :
        f \in Filenames, g \in OtherFilenames, t \in 0..MaxTime, token \in Tokens }

IsAllowedFile ==
    /\ nlast.op = "none"
    /\ nlast' = [nlast EXCEPT !.op = "is_allowed_file",
                              !.allowed = is_allowed_file(nlast.original_filename)]

\* two uploads named by one clock reading and one token, and the path the
\* first is written to
GenerateUniqueFilename ==
    /\ nlast.op = "none"
    /\ nlast' = [nlast EXCEPT
                   !.op = "generate_unique_filename",
                   !.name = format_filename(generate_unique_filename(
                                nlast.original_filename, nlast.t, nlast.token)),
                   !.other_name = format_filename(generate_unique_filename(
                                nlast.other_filename, nlast.t, nlast.token)),
                   !.path = storage_path(nlast.original_filename, nlast.t, nlast.token)]

----------------------------------------------------------------------------
(* seed_data: the demo users created at startup *)

demo_users ==
    << [username |-> "demo",
        password |-> <<"d", "e", "m", "o", "1", "2", "3">>,
        full_name |-> "Demo User", email |-> Some("demo@example.com")],
       [username |-> "fieldworker",
        password |-> <<"f", "i", "e", "l", "d", "1", "2", "3">>,
        full_name |-> "Field Worker", email |-> Some("fieldworker@example.com")],
       [username |-> "supervisor",
        password |-> <<"s", "u", "p", "e", "r", "1", "2", "3">>,
        full_name |-> "Field Supervisor", email |-> Some("supervisor@example.com")] >>

create_user_upsert(table, uc, salt, t) ==
    IF create_user_existing(table, uc) # None
    THEN LET i == create_user_existing(table, uc)[1]
         IN [users |-> [table EXCEPT
                          ![i] = [NewUser(table, uc, salt, t) EXCEPT !.id = table[i].id]],
             out |-> "return", val |-> None]
    ELSE create_user_insert(table, uc, salt, t)

\* create_user run from its select to its return with no other call in between
create_user(table, uc, salt, t) ==
    IF create_user_existing(table, uc) # None
    THEN [users |-> table, out |-> "return", val |-> None]
    ELSE create_user_insert(table, uc, salt, t)

\* the body of the loop of create_demo_users for one demo user
seed_user(table, user_data, salt, t) ==
    LET login_data == [username |-> user_data.username,
                       password |-> user_data.password]
        existing_user == authenticate_user(table, login_data, t)
    IN IF existing_user.val = None
       THEN create_user(existing_user.users, user_data, salt, t)
       ELSE [users |-> existing_user.users, out |-> "return", val |-> None]

\* create_demo_users from demo user k on: an exception ends the loop
RECURSIVE create_demo_users(_, _, _, _)
create_demo_users(table, k, salt, t) ==
    IF k > Len(demo_users)
    THEN [users |-> table, out |-> "return"]
    ELSE LET r == seed_user(table, demo_users[k], salt, t)
         IN IF r.out = "raise"
            THEN [users |-> r.users, out |-> "raise"]
            ELSE create_demo_users(r.users, k + 1, salt, t)

\* startup: seed_database runs before any page is registered, so no other
\* call is in progress
SeedDatabase ==
    /\ SumOver(inflight, InflightKeys) = 0
    /\ \E salt \in AuthSalts, t \in ClockReadings :
         LET r == create_demo_users(users, 1, salt, t) IN
         /\ users' = r.users
         /\ now' = t
         /\ last' = [op |-> "seed_database", username |-> "", password |-> <<>>,
                     out |-> r.out, val |-> None, pre |-> users, t0 |-> now,
                     existed |-> FALSE]
    /\ UNCHANGED inflight

\* a create_user call with no other call between its select and its commit
CreateUser(uc) ==
    /\ SumOver(inflight, InflightKeys) = 0
    /\ \E salt \in AuthSalts, t \in ClockReadings :
         LET r == create_user(users, uc, salt, t) IN
         /\ users' = r.users
         /\ now' = IF r.val = None THEN now ELSE t
         /\ last' = [op |-> "create_user", username |-> uc.username,
                     password |-> uc.password,
                     out |-> r.out, val |-> r.val, pre |-> users, t0 |-> now,
                     existed |-> RowsByUsername(users, uc.username) # {}]
    /\ UNCHANGED inflight

----------------------------------------------------------------------------
(* SessionManager, the login form and the pages *)

\* app.storage.user: each key holds None (absent) or <<value>>
SessionKeys == {"user_id", "username", "full_name", "is_authenticated"}
EmptyStorage == [k \in SessionKeys |-> None]

\* app.storage.user.get(key, default)
storage_get(storage, key, default) ==
    IF storage[key] = None THEN default ELSE storage[key][1]

\* SessionManager.login_user: user.id is set on every stored user
login_user(storage, user) ==
    [storage EXCEPT !["user_id"] = Some(user.id),
                    !["username"] = Some(user.username),
                    !["full_name"] = Some(user.full_name),
                    !["is_authenticated"] = Some(TRUE)]

logout_user_keeps_identity(storage) ==
    [storage EXCEPT !["is_authenticated"] = None]

\* SessionManager.logout_user: app.storage.user.clear()
logout_user(storage) == EmptyStorage

\* AuthService.get_user_by_id: session.get(User, user_id)
get_user_by_id(table, user_id) ==
    IF GetById(table, user_id) = None
    THEN None
    ELSE Some(table[GetById(table, user_id)[1]])

get_current_user_active_only(storage, table) ==
    IF ~storage_get(storage, "is_authenticated", FALSE)
    THEN None
    ELSE IF storage["user_id"] = None
    THEN None
    ELSE LET user == get_user_by_id(table, storage["user_id"][1])
         IN IF user # None /\ ~user[1].is_active THEN None ELSE user

\* SessionManager.get_current_user
get_current_user(storage, table) ==
    IF ~storage_get(storage, "is_authenticated", FALSE)
    THEN None
    ELSE IF storage["user_id"] = None
    THEN None
    ELSE get_user_by_id(table, storage["user_id"][1])

\* SessionManager.is_authenticated
is_authenticated(storage) == storage_get(storage, "is_authenticated", FALSE)

\* SessionManager.require_authentication: the user, or a redirect to /login
require_authentication(storage, table) ==
    LET user == get_current_user(storage, table)
    IN IF user = None
       THEN [user |-> None, navigate |-> Some("/login")]
       ELSE [user |-> user, navigate |-> None]

\* a typed username is a sequence of words and spaces; str.strip() drops the
\* spaces at both ends
RECURSIVE lstrip(_)
lstrip(s) ==
    IF s # <<>> /\ Head(s) = " " THEN lstrip(Tail(s)) ELSE s
RECURSIVE rstrip(_)
rstrip(s) ==
    IF s # <<>> /\ s[Len(s)] = " " THEN rstrip(SubSeq(s, 1, Len(s) - 1)) ELSE s
strip(s) == rstrip(lstrip(s))

\* the text of a stripped username of at most one word
text(s) == IF s = <<>> THEN "" ELSE s[1]

\* typed usernames: spaces around at most one word
TypedUsernames ==
    { <<>>, <<" ">>, <<"alice">>, <<" ", "alice", " ">> }
TypedPasswords == { <<>>, <<"a">>, <<"$">> }

\* handle_login at clock reading t: the storage and the users table
\* afterwards, the result of authenticate_user, the page navigated to
handle_login(storage, table, username, password, t) ==
    IF username = <<>> \/ password = <<>>
    THEN [session |-> storage, users |-> table, called |-> FALSE,
          user |-> None, navigate |-> None]
    ELSE LET login_data == [username |-> text(strip(username)),
                            password |-> password]
             r == authenticate_user(table, login_data, t)
         IN IF r.val = None
            THEN [session |-> storage, users |-> r.users, called |-> TRUE,
                  user |-> None, navigate |-> None]
            ELSE [session |-> login_user(storage, r.val[1]), users |-> r.users,
                  called |-> TRUE, user |-> r.val,
                  navigate |-> Some("/dashboard")]

Paths == {"/", "/login", "/logout", "/dashboard"}

\* the page functions: the storage afterwards, the user the page got, the
\* page navigated to, whether the page renders its content
page(path, storage, table) ==
    CASE path = "/" ->
           [session |-> storage, user |-> None, rendered |-> FALSE,
            navigate |-> IF is_authenticated(storage)
                         THEN Some("/dashboard") ELSE Some("/login")]
      [] path = "/login" ->
           IF is_authenticated(storage)
           THEN [session |-> storage, user |-> None, rendered |-> FALSE,
                 navigate |-> Some("/dashboard")]
           ELSE [session |-> storage, user |-> None, rendered |-> TRUE,
                 navigate |-> None]
      [] path = "/logout" ->
           [session |-> logout_user(storage), user |-> None,
            rendered |-> FALSE, navigate |-> Some("/login")]
      [] path = "/dashboard" ->
           LET r == require_authentication(storage, table)
           IN [session |-> storage, user |-> r.user,
               rendered |-> r.user # None, navigate |-> r.navigate]

NoSessionCall ==
    [op |-> "none", path |-> "", username |-> <<>>, password |-> <<>>, t |-> 0,
     called |-> FALSE, user |-> None, navigate |-> None, rendered |-> FALSE,
     hops |-> 0, pre_session |-> EmptyStorage]

InitSessionVars == session = EmptyStorage /\ slast = NoSessionCall

\* the login form is submitted (no redirect of the browser is under way)
HandleLogin(username, password) ==
    /\ slast.navigate = None
    /\ \E t \in ClockReadings :
         LET r == handle_login(session, users, username, password, t) IN
         /\ session' = r.session
         /\ users' = r.users
         /\ now' = IF r.user = None THEN now ELSE t
         /\ slast' = [op |-> "handle_login", path |-> "/login",
                      username |-> username, password |-> password, t |-> t,
                      called |-> r.called, user |-> r.user,
                      navigate |-> r.navigate, rendered |-> FALSE, hops |-> 0,
                      pre_session |-> session]
         /\ last' = IF r.called
                    THEN [op |-> "authenticate_user",
                          username |-> text(strip(username)),
                          password |-> password, out |-> "return",
                          val |-> r.user, pre |-> users, t0 |-> now,
                          existed |-> RowsByUsername(users, text(strip(username))) # {}]
                    ELSE last
    /\ UNCHANGED inflight

\* the browser requests a page: the one it was sent to, or any one when it
\* was sent nowhere
Page(path) ==
    /\ slast.navigate \in {None, Some(path)}
    /\ LET r == page(path, session, users) IN
       /\ session' = r.session
       /\ slast' = [op |-> "page", path |-> path,
                    username |-> <<>>, password |-> <<>>, t |-> now,
                    called |-> FALSE, user |-> r.user,
                    navigate |-> r.navigate, rendered |-> r.rendered,
                    hops |-> IF slast.navigate = None THEN 0
                             ELSE Min({slast.hops + 1, MaxHops}),
                    pre_session |-> session]
    /\ UNCHANGED <<users, inflight, now, last>>

----------------------------------------------------------------------------
(* The dashboard form: create_data_collection_form and its handlers *)

\* typed customer names and descriptions: spaces around at most one word
TypedNames == { <<>>, <<" ", "Acme", " ">> }
TypedDescriptions == { <<" ">>, <<"visit", " ">> }

\* DataCollectionCreate(...) of handle_form_submit at clock reading t
form_collection_data(customer_name_val, description_val, photo_id, t) ==
    [customer_name |-> text(strip(customer_name_val)),
     description |-> text(strip(description_val)),
     photo_id |-> photo_id,
     location_data |-> None,
     device_info |-> Some([user_agent |-> "NiceGUI Mobile App",
                           timestamp |-> isoformat(t)])]

\* the validation of handle_form_submit: both fields hold more than spaces
form_valid(customer_name_val, description_val) ==
    /\ customer_name_val # <<>> /\ strip(customer_name_val) # <<>>
    /\ description_val # <<>> /\ strip(description_val) # <<>>

after_submit_keeps_photo(current, out, val) == current

\* uploaded_photo_id after create_collection returned or raised: cleared
\* when a collection came back, kept otherwise
after_submit(current, out, val) ==
    IF out = "return" /\ val # None THEN None ELSE current

\* uploaded_photo_id after save_photo returned or raised: the id of the photo
\* that came back, unchanged otherwise
after_upload(current, out, val) ==
    IF out = "return" /\ val # None THEN Some(val[1].id) ELSE current

NoFormCall ==
    [op |-> "none", up |-> CHOOSE u \in Uploads : TRUE,
     customer_name |-> <<>>, description |-> <<>>,
     photo_id |-> None, pre_id |-> None, ok |-> FALSE, created |-> None,
     recent |-> None, pre_recent |-> None]

InitFormVars == uploaded_photo_id = None /\ flast = NoFormCall

InitUiVars == InitNameVars /\ InitSessionVars /\ InitFormVars

\* handle_photo_upload; recent follows the photos save_photo hands back
HandlePhotoUpload(up) ==
    /\ users # <<>>
    /\ IF ~is_allowed_file(up.original_filename) \/ too_large(up.content)
       THEN /\ UNCHANGED <<photoVars, now, uploaded_photo_id>>
            /\ flast' = [NoFormCall EXCEPT
                           !.op = "handle_photo_upload", !.up = up,
                           !.pre_id = uploaded_photo_id,
                           !.recent = flast.recent,
                           !.pre_recent = flast.recent]
       ELSE /\ SavePhoto(up)
            /\ uploaded_photo_id' =
                 after_upload(uploaded_photo_id, plast'.out, plast'.val)
            /\ flast' = [NoFormCall EXCEPT
                           !.op = "handle_photo_upload", !.up = up,
                           !.pre_id = uploaded_photo_id,
                           !.ok = (plast'.out = "return" /\ plast'.val # None),
                           !.recent = IF Len(photos') > Len(photos)
                                         /\ plast'.val = Some(photos'[Len(photos')])
                                      THEN Some(Len(photos'))
                                      ELSE flast.recent,
                           !.pre_recent = flast.recent]

\* reset_photo_upload: the Change Photo button of the preview
ResetPhotoUpload ==
    /\ uploaded_photo_id # None
    /\ uploaded_photo_id' = None
    /\ flast' = [NoFormCall EXCEPT !.op = "reset_photo_upload",
                                   !.pre_id = uploaded_photo_id,
                                   !.pre_recent = flast.recent]

\* handle_form_submit of the form of user_id, with the photo id the form
\* holds when the button is clicked
HandleFormSubmit(user_id, customer_name_val, description_val) ==
    /\ user_id \in Ids(users)
    /\ IF ~form_valid(customer_name_val, description_val)
       THEN /\ UNCHANGED <<dataVars, now, uploaded_photo_id>>
            /\ flast' = [NoFormCall EXCEPT
                           !.op = "handle_form_submit",
                           !.customer_name = customer_name_val,
                           !.description = description_val,
                           !.photo_id = uploaded_photo_id,
                           !.pre_id = uploaded_photo_id,
                           !.recent = flast.recent,
                           !.pre_recent = flast.recent]
       ELSE /\ \E t \in ClockReadings :
                 CreateCollection(user_id,
                     form_collection_data(customer_name_val, description_val,
                                          uploaded_photo_id, t))
            /\ uploaded_photo_id' =
                 after_submit(uploaded_photo_id, clast'.out, clast'.val)
            /\ flast' = [NoFormCall EXCEPT
                           !.op = "handle_form_submit",
                           !.customer_name = customer_name_val,
                           !.description = description_val,
                           !.photo_id = uploaded_photo_id,
                           !.pre_id = uploaded_photo_id,
                           !.ok = (clast'.out = "return" /\ clast'.val # None),
                           !.created = IF Len(collections') > Len(collections)
                                       THEN Some(collections'[Len(collections')])
                                       ELSE None,
                           !.recent = IF clast'.out = "return" /\ clast'.val # None
                                      THEN None ELSE flast.recent,
                           !.pre_recent = flast.recent]

----------------------------------------------------------------------------
(* AuthService on its own *)

InitAuth ==
    /\ InitAuthVars
    /\ InitPhotoVars
    /\ InitUiVars
    /\ InitDataVars
    /\ hpw = <<>>
    /\ hcalls = <<>>
    /\ vres = None

NextAuth ==
    \/ \E uc \in UserCreates : CreateUserCheck(uc) /\ UNCHANGED <<uiVars, hashVars, photoVars, dataVars>>
    \/ \E k \in InflightKeys : CreateUserInsert(k) /\ UNCHANGED <<uiVars, hashVars, photoVars, dataVars>>
    \/ \E login \in UserLogins : AuthenticateUser(login) /\ UNCHANGED <<uiVars, hashVars, photoVars, dataVars>>
    \/ \E i \in DOMAIN users : Deactivate(i) /\ UNCHANGED <<uiVars, hashVars, photoVars, dataVars>>

SpecAuth == InitAuth /\ [][NextAuth]_vars

(* PhotoService on its own *)

InitPhoto ==
    /\ InitPhotoVars
    /\ InitUiVars
    /\ InitAuthVars
    /\ InitDataVars
    /\ hpw = <<>>
    /\ hcalls = <<>>
    /\ vres = None

NextPhoto ==
    \E up \in Uploads : SavePhoto(up) /\ UNCHANGED <<uiVars, hashVars, authVars, dataVars>>

SpecPhoto == InitPhoto /\ [][NextPhoto]_vars

(* DataCollectionService over the users and photos the other services store *)

\* the sign-up and the uploads of these runs: one create_user call, and
\* save_photo calls until a photo is stored
DataUserCreates == {uc \in UserCreates : uc.full_name = "User One"}
DataUploads ==
    {up \in Uploads : up.content.len = 1 /\ is_allowed_file(up.original_filename)}

InitData ==
    /\ InitAuthVars
    /\ InitPhotoVars
    /\ InitUiVars
    /\ InitDataVars
    /\ hpw = <<>>
    /\ hcalls = <<>>
    /\ vres = None

NextData ==
    \/ \E uc \in DataUserCreates :
         /\ users = <<>>
         /\ SumOver(inflight, InflightKeys) = 0
         /\ CreateUserCheck(uc)
         /\ UNCHANGED <<uiVars, hashVars, photoVars, dataVars>>
    \/ \E k \in InflightKeys :
         CreateUserInsert(k) /\ UNCHANGED <<uiVars, hashVars, photoVars, dataVars>>
    \/ \E up \in DataUploads :
         /\ photos = <<>>
         /\ SavePhoto(up)
         /\ UNCHANGED <<uiVars, hashVars, authVars, dataVars>>
    \/ \E user_id \in UserIds, collection_data \in CollectionCreates :
         CreateCollection(user_id, collection_data)
         /\ UNCHANGED <<uiVars, hashVars, authVars, photoVars>>

SpecData == InitData /\ [][NextData]_vars

(* The queries of DataCollectionService over stored collections *)

\* clock readings from Sunday 2025-09-28 12:00 to Wednesday 2025-10-01 12:00
QueryTicks == (0 - 1)..(2 * TicksPerDay + 1)

\* two stored users
QueryUsers ==
    LET alice == CHOOSE uc \in UserCreates : uc.full_name = "User One"
        bob == CHOOSE uc \in UserCreates : uc.full_name = "Bob"
        salt == CHOOSE x \in AuthSalts : TRUE
        first == create_user_insert(<<>>, alice, salt, 0 - 1).users
    IN create_user_insert(first, bob, salt, 0 - 1).users

\* stored rows: created by create_collection at some reading; rows of the
\* first user have since then been marked synchronized or not
QueryRows ==
    { r \in { [NewCollection(<<>>, user_id, NoDataCall.data, t)
                 EXCEPT !.is_synchronized = b] :
               user_id \in UserIds, t \in QueryTicks, b \in BOOLEAN } :
        r.is_synchronized => r.user_id = 1 }

\* tables of up to MaxCollections rows, none of them submitted after reading t
QueryTables(t) ==
    UNION { { [i \in 1..n |-> [f[i] EXCEPT !.id = i]] :
              f \in [1..n -> {r \in QueryRows : r.submission_date <= t}] } :
            n \in 0..MaxCollections }

InitQuery ==
    /\ now \in QueryTicks
    /\ collections \in QueryTables(now)
    /\ clast = NoDataCall
    /\ users = QueryUsers
    /\ inflight = [k \in InflightKeys |-> 0]
    /\ last = NoCall
    /\ InitPhotoVars
    /\ InitUiVars
    /\ hpw = <<>>
    /\ hcalls = <<>>
    /\ vres = None

NextQuery ==
    \/ \E user_id \in UserIds, limit \in Limits :
         GetCollectionsByUser(user_id, limit)
         /\ UNCHANGED <<uiVars, hashVars, authVars, photoVars>>
    \/ \E user_id \in UserIds :
         GetDashboardStats(user_id)
         /\ UNCHANGED <<uiVars, hashVars, authVars, photoVars>>

SpecQuery == InitQuery /\ [][NextQuery]_vars

----------------------------------------------------------------------------
(* The hasher on its own: one password, hashed repeatedly and verified *)

InitHash ==
    /\ hpw \in HashPasswords
    /\ hcalls = <<>>
    /\ vres = None
    /\ InitAuthVars
    /\ InitPhotoVars
    /\ InitUiVars
    /\ InitDataVars

HashCall ==
    /\ Len(hcalls) < MaxHashCalls
    /\ \E salt \in Salts :
         hcalls' = Append(hcalls, [salt |-> salt, out |-> hash_password(hpw, salt)])
    /\ UNCHANGED <<hpw, vres>>
    /\ UNCHANGED <<uiVars, authVars, now, photoVars, dataVars>>

\* verify a candidate against an output of hash_password
VerifyHashed ==
    /\ \E q \in HashPasswords, i \in DOMAIN hcalls :
         LET r == verify_password(q, hcalls[i].out) IN
         vres' = Some([candidate |-> q, stored |-> hcalls[i].out,
                       raised |-> r.raised, value |-> r.value])
    /\ UNCHANGED <<hpw, hcalls>>
    /\ UNCHANGED <<uiVars, authVars, now, photoVars, dataVars>>

\* verify a candidate against an arbitrary stored value
VerifyStored ==
    /\ \E q \in HashPasswords, h \in StoredStrings :
         LET r == verify_password(q, h) IN
         vres' = Some([candidate |-> q, stored |-> h,
                       raised |-> r.raised, value |-> r.value])
    /\ UNCHANGED <<hpw, hcalls>>
    /\ UNCHANGED <<uiVars, authVars, now, photoVars, dataVars>>

NextHash == HashCall \/ VerifyHashed \/ VerifyStored

SpecHash == InitHash /\ [][NextHash]_vars

----------------------------------------------------------------------------
(* The filename functions of PhotoService on their own *)

InitNames ==
    /\ InitAuthVars
    /\ InitPhotoVars
    /\ InitDataVars
    /\ InitSessionVars
    /\ InitFormVars
    /\ nlast \in NameInputs
    /\ hpw = <<>> /\ hcalls = <<>> /\ vres = None

NextNames ==
    \/ IsAllowedFile
         /\ UNCHANGED <<hashVars, authVars, now, photoVars, dataVars,
                        sessionVars, formVars>>
    \/ GenerateUniqueFilename
         /\ UNCHANGED <<hashVars, authVars, now, photoVars, dataVars,
                        sessionVars, formVars>>

SpecNames == InitNames /\ [][NextNames]_vars

----------------------------------------------------------------------------
(* Startups of the application over a users table that other calls change *)

\* a demo username taken by an account with another password
SeedUserCreates ==
    { [username |-> "demo", password |-> <<"x">>, full_name |-> "Somebody Else",
       email |-> None] }

SeedLogins ==
    { [username |-> demo_users[k].username, password |-> demo_users[k].password] :
        k \in DOMAIN demo_users }
    \cup { [username |-> "demo", password |-> <<"x">>] }

InitSeed ==
    /\ InitAuthVars
    /\ InitPhotoVars
    /\ InitDataVars
    /\ InitUiVars
    /\ hpw = <<>> /\ hcalls = <<>> /\ vres = None

NextSeed ==
    \/ SeedDatabase /\ UNCHANGED <<uiVars, hashVars, photoVars, dataVars>>
    \/ \E uc \in SeedUserCreates :
         CreateUser(uc) /\ UNCHANGED <<uiVars, hashVars, photoVars, dataVars>>
    \/ \E login \in SeedLogins :
         AuthenticateUser(login) /\ UNCHANGED <<uiVars, hashVars, photoVars, dataVars>>
    \/ \E i \in DOMAIN users :
         Deactivate(i) /\ UNCHANGED <<uiVars, hashVars, photoVars, dataVars>>

SpecSeed == InitSeed /\ [][NextSeed]_vars

----------------------------------------------------------------------------
(* One browser session over the users table *)

SessionUserCreates ==
    { uc \in UserCreates : uc.full_name = "User One" }

InitSession ==
    /\ InitAuthVars
    /\ InitPhotoVars
    /\ InitDataVars
    /\ InitUiVars
    /\ hpw = <<>> /\ hcalls = <<>> /\ vres = None

NextSession ==
    \/ \E uc \in SessionUserCreates :
         CreateUser(uc)
         /\ UNCHANGED <<hashVars, photoVars, dataVars, uiVars>>
    \/ \E i \in DOMAIN users :
         Deactivate(i)
         /\ UNCHANGED <<hashVars, photoVars, dataVars, uiVars>>
    \/ \E username \in TypedUsernames, password \in TypedPasswords :
         HandleLogin(username, password)
         /\ UNCHANGED <<hashVars, photoVars, dataVars, nameVars, formVars>>
    \/ \E path \in Paths :
         Page(path)
         /\ UNCHANGED <<hashVars, photoVars, dataVars, nameVars, formVars>>

SpecSession == InitSession /\ [][NextSession]_vars

\* the browser follows a redirect it was sent
FollowRedirect ==
    \E path \in Paths :
      /\ slast.navigate = Some(path)
      /\ Page(path)
      /\ UNCHANGED <<hashVars, photoVars, dataVars, nameVars, formVars>>

SpecSessionFair == SpecSession /\ WF_vars(FollowRedirect)

----------------------------------------------------------------------------
(* The dashboard of one user: the form, the list and the statistics *)

FormUploads ==
    {up \in Uploads : up.content.len = 1 /\ up.original_filename # <<"a">>}

\* the handlers of the form run within one reading of the clock.
\* what the storage does during the uploads of the form: everything works,
\* the refresh of the committed photo row raises
FormIoOutcomes == {"ok", "refresh_fails"}

\* the user the dashboard is rendered for, created at reading 0
FormUsers ==
    { <<NewUser(<<>>, uc, [i \in 1..SaltLen |-> "0"], 0)>> : uc \in SessionUserCreates }

InitForm ==
    /\ users \in FormUsers
    /\ inflight = [k \in InflightKeys |-> 0]
    /\ now = 0
    /\ last = NoCall
    /\ InitPhotoVars
    /\ InitDataVars
    /\ InitUiVars
    /\ hpw = <<>> /\ hcalls = <<>> /\ vres = None

NextForm ==
    \/ \E up \in FormUploads :
         HandlePhotoUpload(up)
         /\ plast'.io \in FormIoOutcomes \cup {"unused"}
         /\ (plast'.draw # None => plast'.draw[1].token = Len(photos) + 1)
         /\ now' = now
         /\ UNCHANGED <<hashVars, authVars, dataVars, nameVars, sessionVars>>
    \/ ResetPhotoUpload
         /\ UNCHANGED <<hashVars, authVars, now, photoVars, dataVars,
                        nameVars, sessionVars>>
    \/ \E user_id \in UserIds, customer_name_val \in TypedNames,
          description_val \in TypedDescriptions :
         HandleFormSubmit(user_id, customer_name_val, description_val)
         /\ now' = now
         /\ UNCHANGED <<hashVars, authVars, photoVars, nameVars, sessionVars>>
    \/ \E user_id \in UserIds :
         \* the page is rendered again after a submit: the statistics first
         /\ user_id \in Ids(users)
         /\ clast.op = "create_collection"
         /\ GetDashboardStats(user_id)
         /\ UNCHANGED <<hashVars, authVars, photoVars, uiVars>>
    \/ \E user_id \in UserIds :
         \* then the recent collections
         /\ user_id \in Ids(users)
         /\ clast.op = "get_dashboard_stats"
         /\ GetCollectionsByUser(user_id, 5)
         /\ UNCHANGED <<hashVars, authVars, photoVars, uiVars>>

SpecForm == InitForm /\ [][NextForm]_vars

----------------------------------------------------------------------------
(* Claims about AuthService, checked under SpecAuth *)

\* the row a login names in the table before the call, and how the call must fail
LoginRows == RowsByUsername(last.pre, last.username)
LoginRow == last.pre[Min(LoginRows)]
LoginNoUser == LoginRows = {}
LoginInactive == LoginRows # {} /\ ~LoginRow.is_active
LoginBadPassword ==
    /\ LoginRows # {}
    /\ LoginRow.is_active
    /\ ~verify_password(last.password, LoginRow.password_hash).value
LoginGood ==
    /\ LoginRows # {}
    /\ LoginRow.is_active
    /\ verify_password(last.password, LoginRow.password_hash).value

\* C1: authenticate_user returns None when no user has the username, when the
\* user is inactive, and when the password does not verify; in each of the
\* three cases the users table (every last_login included) is as before the call.
C1_AuthFailureNullAndUnchanged ==
    (last.op = "authenticate_user"
        /\ (LoginNoUser \/ LoginInactive \/ LoginBadPassword))
    => (last.out = "return" /\ last.val = None /\ users = last.pre)

\* an inactive user was refused although the password given was the right one
C1_Witness ==
    /\ last.op = "authenticate_user"
    /\ LoginInactive
    /\ verify_password(last.password, LoginRow.password_hash).value
    /\ last.val = None

\* C2: authenticate_user with the username and password of an active user
\* returns that user (same id), stores a last_login that is not before the
\* time of the call, and changes nothing else in the table.
C2_AuthSuccessStampsLastLogin ==
    (last.op = "authenticate_user" /\ LoginGood)
    => /\ last.out = "return"
       /\ last.val # None
       /\ last.val[1].id = LoginRow.id
       /\ last.val[1].last_login # None
       /\ last.val[1].last_login[1] >= last.t0
       /\ last.val[1] = [LoginRow EXCEPT !.last_login = last.val[1].last_login]
       /\ users = [last.pre EXCEPT ![Min(LoginRows)] = last.val[1]]

\* a second login of one of two stored users, after the clock moved on
C2_Witness ==
    /\ last.op = "authenticate_user"
    /\ LoginGood
    /\ Len(users) = 2
    /\ LoginRow.last_login # None
    /\ last.val # None
    /\ last.val[1].last_login[1] > LoginRow.last_login[1]

\* C3: create_user called with a stored username returns None, adds no user
\* and leaves the stored users as they were.
C3_DuplicateUsernameRefused ==
    (last.op = "create_user" /\ last.existed)
    => (last.out = "return" /\ last.val = None /\ users = last.pre)

\* the second registration of a username, with another password, was refused
C3_Witness ==
    /\ last.op = "create_user"
    /\ last.existed
    /\ last.val = None
    /\ ~verify_password(last.password, LoginRow.password_hash).value
    /\ LoginRow.last_login # None

\* C4: no two stored users have the same username, whatever the interleaving
\* of the select and the commit of concurrent create_user calls.
C4_UsernameUnique ==
    \A i, j \in DOMAIN users :
        users[i].username = users[j].username => i = j

\* two calls with one username both passed the select; the second commit failed
C4_Witness ==
    /\ last.op = "create_user"
    /\ ~last.existed
    /\ last.out = "raise"
    /\ Cardinality(RowsByUsername(users, last.username)) = 1

\* C5: a create_user call whose username is taken at the moment of its insert
\* ends by returning None, never by raising.
C5_TakenAtInsertReturnsNull ==
    (last.op = "create_user" /\ RowsByUsername(last.pre, last.username) # {})
    => (last.out = "return" /\ last.val = None)

----------------------------------------------------------------------------
(* Claims about the password hasher, checked under SpecHash *)

HashOutputs == {hcalls[i].out : i \in DOMAIN hcalls}

\* C6: a hash of p verifies p and no other password, for every salt drawn.
C6_VerifyAcceptsExactlyThePassword ==
    (vres # None /\ vres[1].stored \in HashOutputs)
    => (~vres[1].raised /\ (vres[1].value <=> vres[1].candidate = hpw))

\* a password holding the separator was verified against its own hash
C6_Witness ==
    /\ vres # None
    /\ vres[1].stored \in HashOutputs
    /\ vres[1].candidate = hpw
    /\ \E i \in DOMAIN hpw : hpw[i] = SEP
    /\ vres[1].value

C8_MalformedHashIsFalse ==
    (vres # None /\ CountSep(vres[1].stored) # 1)
    => (~vres[1].raised /\ ~vres[1].value)

\* a stored value with two separators was verified
C8_Witness ==
    /\ vres # None
    /\ CountSep(vres[1].stored) = 2
    /\ ~vres[1].raised
    /\ ~vres[1].value

----------------------------------------------------------------------------
(* Claims about PhotoService, checked under SpecPhoto *)

\* C9: save_photo returns None, writes no file and stores no photo row when
\* the extension is not allowed or the content is longer than MAX_FILE_SIZE;
\* content of exactly MAX_FILE_SIZE bytes with an allowed extension passes
\* both checks (the call goes on to the storage) and is saved when the
\* storage works.
C9_RejectedUploadLeavesNothing ==
    /\ (plast.op = "save_photo"
          /\ (~is_allowed_file(plast.up.original_filename)
                \/ plast.up.content.len > MAX_FILE_SIZE))
       => /\ plast.out = "return"
          /\ plast.val = None
          /\ files = plast.pre_files
          /\ photos = plast.pre_photos
    /\ (plast.op = "save_photo"
          /\ is_allowed_file(plast.up.original_filename)
          /\ plast.up.content.len = MAX_FILE_SIZE)
       => /\ plast.io # "unused"
          /\ plast.io = "ok" =>
                /\ plast.val # None
                /\ plast.val[1].file_size = MAX_FILE_SIZE
                /\ photos = Append(plast.pre_photos, plast.val[1])

\* content one byte over the ceiling was refused, with a photo already stored
C9_Witness ==
    /\ plast.op = "save_photo"
    /\ is_allowed_file(plast.up.original_filename)
    /\ plast.up.content.len = MAX_FILE_SIZE + 1
    /\ plast.val = None
    /\ Len(photos) = 1
    /\ DOMAIN files # {}

\* C10: when the commit of the photo row fails after the file was written,
\* the file written by the call is gone when the call returns, the call
\* returns None and no photo row is stored.
C10_CommitFailureRemovesFile ==
    (plast.op = "save_photo" /\ plast.io = "commit_fails")
    => /\ plast.out = "return"
       /\ plast.val = None
       /\ plast.path # None
       /\ plast.path[1] \notin DOMAIN files
       /\ photos = plast.pre_photos

\* the commit failed for a file with a new name, next to a stored photo
C10_Witness ==
    /\ plast.op = "save_photo"
    /\ plast.io = "commit_fails"
    /\ plast.path # None
    /\ plast.path[1] \notin DOMAIN plast.pre_files
    /\ plast.val = None
    /\ Len(photos) = 1
    /\ files = plast.pre_files

\* C11: every stored photo row has a file at its file_path holding the bytes
\* the row was saved with, and every file of the upload directory has a photo
\* row pointing at it.
C11_NoOrphanNoDangling ==
    /\ \A i \in DOMAIN photos :
         /\ photos[i].file_path.name \in DOMAIN files
         /\ files[photos[i].file_path.name] = saved[i]
    /\ \A n \in DOMAIN files :
         \E i \in DOMAIN photos : photos[i].file_path.name = n

\* C12: a save_photo call that returns a photo has stored it as a new row with
\* a fresh id; the row's file_size is the length of the content, its
\* original_filename and mime_type are the arguments, and the file at its
\* file_path holds exactly the content.
C12_SuccessStoresContent ==
    (plast.op = "save_photo" /\ plast.val # None)
    => LET photo == plast.val[1]
       IN /\ plast.out = "return"
          /\ photos = Append(plast.pre_photos, photo)
          /\ photo.id >= 1
          /\ \A i \in DOMAIN plast.pre_photos : plast.pre_photos[i].id # photo.id
          /\ photo.file_size = plast.up.content.len
          /\ photo.original_filename = plast.up.original_filename
          /\ photo.mime_type = plast.up.mime_type
          /\ photo.file_path.dir = "uploads/photos"
          /\ photo.file_path.name = photo.filename
          /\ photo.filename \in DOMAIN files
          /\ files[photo.filename] = plast.up.content

\* a second photo, of MAX_FILE_SIZE bytes and another name, was saved
C12_Witness ==
    /\ plast.op = "save_photo"
    /\ plast.val # None
    /\ Len(photos) = 2
    /\ plast.val[1].id = 2
    /\ plast.val[1].file_size = MAX_FILE_SIZE
    /\ plast.val[1].original_filename = <<"d", "/", "B", ".", "P", "N", "G">>
    /\ plast.val[1].filename.suffix = <<".", "p", "n", "g">>
    /\ files[plast.val[1].filename] = plast.up.content

C14_StorageFailureReturnsNull ==
    (plast.op = "save_photo" /\ plast.io \notin {"unused", "ok"})
    => (plast.out = "return" /\ plast.val = None)

\* C15: every stored photo row has a file_size greater than 0.
C15_FileSizePositive ==
    \A i \in DOMAIN photos : photos[i].file_size > 0

----------------------------------------------------------------------------
(* Claims about DataCollectionService.create_collection, checked under SpecData *)

\* C16: create_collection returns None and leaves the stored collections as
\* they were when user_id is the id of no user, or when a photo_id is given
\* that is the id of no photo.
C16_UnresolvedReferenceRefused ==
    (clast.op = "create_collection"
       /\ (clast.user_id \notin clast.uids
             \/ (clast.data.photo_id # None
                   /\ clast.data.photo_id[1] \notin clast.pids)))
    => /\ clast.out = "return"
       /\ clast.val = None
       /\ collections = clast.pre

\* with a collection stored, a call for the existing user named a photo that
\* does not exist and was refused
C16_Witness ==
    /\ clast.op = "create_collection"
    /\ clast.user_id \in clast.uids
    /\ clast.data.photo_id # None
    /\ clast.data.photo_id[1] \notin clast.pids
    /\ clast.val = None
    /\ Len(collections) = 1
    /\ collections = clast.pre

\* C17: every stored collection's user_id is the id of a stored user, and its
\* photo_id is None or the id of a stored photo.
C17_NoDanglingReference ==
    \A i \in DOMAIN collections :
        /\ collections[i].user_id \in Ids(users)
        /\ collections[i].photo_id # None
             => collections[i].photo_id[1] \in Ids(photos)

\* two collections are stored, one with a photo and one without
C17_Witness ==
    /\ Len(collections) = 2
    /\ collections[1].photo_id = None
    /\ collections[2].photo_id # None
    /\ collections[2].photo_id[1] \in Ids(photos)
    /\ collections[2].user_id \in Ids(users)

\* C18: a create_collection call that returns a collection has stored it as
\* one new row after the rows stored before, which are unchanged; the row has
\* a fresh id, the clock reading of the call as submission_date,
\* is_synchronized False, sync_error None, the user_id of the call and the
\* customer name, description, photo_id, location data and device info given.
C18_SuccessStoresOneNewRow ==
    (clast.op = "create_collection" /\ clast.val # None)
    => LET collection == clast.val[1]
       IN /\ clast.out = "return"
          /\ collections = Append(clast.pre, collection)
          /\ collection.id >= 1
          /\ collection.id \notin Ids(clast.pre)
          /\ collection.submission_date = clast.t
          /\ clast.t0 <= clast.t
          /\ clast.t <= now
          /\ collection.is_synchronized = FALSE
          /\ collection.sync_error = None
          /\ collection.user_id = clast.user_id
          /\ collection.customer_name = clast.data.customer_name
          /\ collection.description = clast.data.description
          /\ collection.photo_id = clast.data.photo_id
          /\ collection.location_data = clast.data.location_data
          /\ collection.device_info = clast.data.device_info

\* a second collection, with a photo and location data, was created at a
\* later clock reading than the first
C18_Witness ==
    /\ clast.op = "create_collection"
    /\ clast.val # None
    /\ Len(collections) = 2
    /\ clast.val[1].id = 2
    /\ clast.val[1].photo_id = Some(1)
    /\ clast.val[1].location_data # None
    /\ collections[1].submission_date < clast.val[1].submission_date

----------------------------------------------------------------------------
(* Claims about the queries of DataCollectionService, checked under SpecQuery *)

\* C19: get_collections_by_user returns rows of the user only, each stored
\* row at most once, most recent submission first, exactly min(limit, n) of
\* the user's n rows, and no row of the user left out is more recent than a
\* row returned.
C19_ListIsNewestFirstAndBounded ==
    (clast.op = "get_collections_by_user")
    => LET r == clast.val
           mine == ByUser(clast.pre, clast.user_id)
           n == Len(mine)
       IN /\ \A k \in DOMAIN r :
               /\ r[k].user_id = clast.user_id
               /\ \E i \in DOMAIN clast.pre : clast.pre[i] = r[k]
          /\ \A j, k \in DOMAIN r : j # k => r[j].id # r[k].id
          /\ \A k \in DOMAIN r :
               k < Len(r) => r[k].submission_date >= r[k + 1].submission_date
          /\ Len(r) <= clast.limit
          /\ Len(r) = (IF clast.limit < n THEN clast.limit ELSE n)
          /\ \A i \in DOMAIN mine :
               (\A k \in DOMAIN r : r[k].id # mine[i].id)
               => \A k \in DOMAIN r :
                    mine[i].submission_date <= r[k].submission_date

\* of two rows of one user submitted at different readings, a call with
\* limit 1 returned the later one and left the earlier one out
C19_Witness ==
    /\ clast.op = "get_collections_by_user"
    /\ clast.limit = 1
    /\ Len(ByUser(clast.pre, clast.user_id)) = 2
    /\ Len(clast.val) = 1
    /\ clast.val[1].id = 1
    /\ clast.pre[1].submission_date > clast.pre[2].submission_date

\* midnight of the most recent Monday at reading t
C20_MondayMidnight(t) == today_start(t) - weekday(t) * TicksPerDay

\* C20: get_dashboard_stats returns the number of the user's collections, the
\* numbers of them submitted since midnight of the current day, since
\* midnight of the most recent Monday and since midnight of the first of the
\* current month, the number not synchronized, and the ISO-8601 form of the
\* user's most recent submission date, None exactly when the user has none.
C20_StatsCountSinceMidnights ==
    (clast.op = "get_dashboard_stats")
    => LET stats == clast.val[1]
           mine == ByUser(clast.pre, clast.user_id)
           Since(t) == Cardinality({i \in DOMAIN mine :
                                       mine[i].submission_date >= t})
       IN /\ stats.total_collections = Len(mine)
          /\ stats.collections_today = Since(today_start(clast.t))
          /\ stats.collections_this_week = Since(C20_MondayMidnight(clast.t))
          /\ stats.collections_this_month = Since(month_start(clast.t))
          /\ stats.pending_sync
               = Cardinality({i \in DOMAIN mine : ~mine[i].is_synchronized})
          /\ (stats.last_submission = None) <=> (mine = <<>>)
          /\ mine # <<>>
               => \E i \in DOMAIN mine :
                    /\ stats.last_submission = Some(isoformat(mine[i].submission_date))
                    /\ \A j \in DOMAIN mine :
                         mine[j].submission_date <= mine[i].submission_date

\* C21: get_dashboard_stats for a user without collections returns zero for
\* every count and None as last_submission; when all N collections of the
\* user were created, and left unsynchronized, earlier on the day of the
\* call, the five counts are N and last_submission is not None.
C21_StatsOfTodaysCollections ==
    (clast.op = "get_dashboard_stats")
    => LET stats == clast.val[1]
           mine == ByUser(clast.pre, clast.user_id)
           N == Len(mine)
       IN /\ N = 0
               => /\ stats.total_collections = 0
                  /\ stats.collections_today = 0
                  /\ stats.collections_this_week = 0
                  /\ stats.collections_this_month = 0
                  /\ stats.pending_sync = 0
                  /\ stats.last_submission = None
          /\ (/\ N > 0
              /\ \A i \in DOMAIN mine :
                   /\ DayOf(mine[i].submission_date) = DayOf(clast.t)
                   /\ mine[i].submission_date <= clast.t
                   /\ ~mine[i].is_synchronized)
               => /\ stats.total_collections = N
                  /\ stats.collections_today = N
                  /\ stats.collections_this_week = N
                  /\ stats.collections_this_month = N
                  /\ stats.pending_sync = N
                  /\ stats.last_submission # None

\* C26: in every result of get_dashboard_stats over collections not submitted
\* after the call, collections_today <= collections_this_week <=
\* total_collections, collections_today <= collections_this_month <=
\* total_collections and pending_sync <= total_collections.
C26_StatsCountsAreNested ==
    (/\ clast.op = "get_dashboard_stats"
     /\ \A i \in DOMAIN clast.pre : clast.pre[i].submission_date <= clast.t)
    => LET stats == clast.val[1]
       IN /\ stats.collections_today <= stats.collections_this_week
          /\ stats.collections_this_week <= stats.total_collections
          /\ stats.collections_today <= stats.collections_this_month
          /\ stats.collections_this_month <= stats.total_collections
          /\ stats.pending_sync <= stats.total_collections

----------------------------------------------------------------------------
(* Claims about the filename functions (SpecNames) *)

\* the final component of filename ends, whatever the case of its letters,
\* with one of the allowed extensions, after at least one other character
C23_EndsWithAllowedExtension(filename) ==
    LET name == PathName(filename)
    IN \E k \in 2..Len(name) :
         /\ Lower(SubSeq(name, k, Len(name)))
              \in { <<".", "j", "p", "g">>, <<".", "j", "p", "e", "g">>,
                    <<".", "p", "n", "g">>, <<".", "g", "i", "f">>,
                    <<".", "w", "e", "b", "p">> }

\* C23: is_allowed_file(filename) is true if and only if the lower-cased
\* extension of filename is one of .jpg, .jpeg, .png, .gif, .webp: the case of
\* the extension does not matter, and a filename with no extension (no dot
\* in its final component, or only a leading or a trailing one) is refused.
C23_AllowedIffExtensionListed ==
    (nlast.op = "is_allowed_file")
    => /\ nlast.allowed <=> C23_EndsWithAllowedExtension(nlast.original_filename)
       /\ (\A i \in DOMAIN PathName(nlast.original_filename) :
             PathName(nlast.original_filename)[i] # ".") => ~nlast.allowed

\* an upper-case extension after a directory is accepted
C23_Witness ==
    /\ nlast.op = "is_allowed_file"
    /\ nlast.original_filename = <<"d", "/", "a", ".", "J", "P", "G">>
    /\ nlast.allowed

\* C24: the generated name depends on the original filename through its
\* lower-cased extension only (two filenames with the same lower-cased
\* extension, named at one clock reading with one token, get the same name),
\* the name ends with that extension and holds no path separator, and the
\* path written to is a direct child of the upload directory.
C24_NameDependsOnExtensionOnly ==
    (nlast.op = "generate_unique_filename")
    => LET ext == Lower(PathSuffix(nlast.original_filename))
           other_ext == Lower(PathSuffix(nlast.other_filename))
           parts == PathParts(nlast.path)
           n == Len(nlast.name)
       IN /\ (ext = other_ext) => (nlast.name = nlast.other_name)
          /\ n >= Len(ext)
          /\ SubSeq(nlast.name, n - Len(ext) + 1, n) = ext
          /\ \A i \in 1..n : nlast.name[i] # "/"
          /\ nlast.path[1] # "/"
          /\ Len(parts) = Len(PathParts(UPLOAD_DIR)) + 1
          /\ SubSeq(parts, 1, Len(parts) - 1) = PathParts(UPLOAD_DIR)
          /\ parts[Len(parts)] = nlast.name
          /\ parts[Len(parts)] # <<".", ".">>

\* a filename with a parent-directory prefix and another one with the same
\* extension in another case get one name
C24_Witness ==
    /\ nlast.op = "generate_unique_filename"
    /\ nlast.original_filename = <<".", ".", "/", "a", ".", "j", "p", "g">>
    /\ nlast.other_filename = <<".", ".", "/", "B", ".", "J", "P", "G">>
    /\ nlast.name = nlast.other_name
    /\ nlast.path = UPLOAD_DIR \o <<"/">> \o nlast.name

----------------------------------------------------------------------------
(* Claims about seed_database (SpecSeed) *)

\* C30: a run of seed_database completes and leaves exactly one user record
\* for each of demo, fieldworker and supervisor; it changes no stored user's
\* username, password hash, full name, email or active flag, and when the
\* three usernames were stored before the run (as after any earlier run) it
\* adds no user: also when a demo user is inactive or has another password.
C30_SeedIsIdempotent ==
    (last.op = "seed_database")
    => /\ last.out = "return"
       /\ \A name \in {"demo", "fieldworker", "supervisor"} :
            Cardinality(RowsByUsername(users, name)) = 1
       /\ Len(users) >= Len(last.pre)
       /\ \A i \in DOMAIN last.pre :
            /\ users[i].id = last.pre[i].id
            /\ users[i].username = last.pre[i].username
            /\ users[i].password_hash = last.pre[i].password_hash
            /\ users[i].full_name = last.pre[i].full_name
            /\ users[i].email = last.pre[i].email
            /\ users[i].is_active = last.pre[i].is_active
       /\ (\A name \in {"demo", "fieldworker", "supervisor"} :
             RowsByUsername(last.pre, name) # {})
          => Len(users) = Len(last.pre)

\* a further run over a demo account with another password and an inactive
\* fieldworker
C30_Witness ==
    /\ last.op = "seed_database"
    /\ Len(last.pre) = 3
    /\ Len(users) = 3
    /\ \E i \in DOMAIN last.pre :
         /\ last.pre[i].username = "demo"
         /\ ~verify_password(<<"d", "e", "m", "o", "1", "2", "3">>,
                             last.pre[i].password_hash).value
    /\ \E i \in DOMAIN last.pre :
         /\ last.pre[i].username = "fieldworker"
         /\ ~last.pre[i].is_active

----------------------------------------------------------------------------
(* Claims about the session layer (SpecSession, SpecSessionFair) *)

\* the step is a login-form submission with both fields filled in whose
\* authenticate_user call returns a user
C22_SuccessfulLoginStep ==
    /\ slast'.op = "handle_login"
    /\ slast'.username # <<>>
    /\ slast'.password # <<>>
    /\ LET r == authenticate_user(users,
                                  [username |-> text(strip(slast'.username)),
                                   password |-> slast'.password], slast'.t)
       IN /\ r.val # None
          /\ session'["user_id"] = Some(r.val[1].id)
          /\ session'["username"] = Some(r.val[1].username)
          /\ session'["full_name"] = Some(r.val[1].full_name)
          /\ session'["is_authenticated"] = Some(TRUE)

C22_LogoutStep == slast'.op = "page" /\ slast'.path = "/logout"

\* C22: the stored session changes only in a step of the login form whose
\* authenticate_user call succeeds (it then holds that user's identity) or in
\* a logout; a login attempt with an empty field or a null authenticate_user
\* result leaves it as it was; after a logout it is empty, and while it is
\* empty is_authenticated() is false and get_current_user() and
\* require_authentication() return null.
C22_SessionOnlyFromLogin ==
    /\ []((slast.op = "page" /\ slast.path = "/logout") => session = EmptyStorage)
    /\ []((slast.op = "handle_login" /\ slast.user = None)
            => session = slast.pre_session)
    /\ []((session = EmptyStorage)
            => /\ ~is_authenticated(session)
               /\ get_current_user(session, users) = None
               /\ require_authentication(session, users).user = None)
    /\ [][(session' # session) => (C22_SuccessfulLoginStep \/ C22_LogoutStep)]_vars

\* a logout of a logged-in session
C22_Witness ==
    /\ slast.op = "page"
    /\ slast.path = "/logout"
    /\ slast.pre_session["is_authenticated"] = Some(TRUE)
    /\ session = EmptyStorage

\* C27: is_authenticated() is true exactly when get_current_user() returns a
\* user; a page the browser is redirected to renders (so /login and
\* /dashboard never send the browser back and forth), and every navigation
\* ends on a page that renders.
C27_AuthenticatedIffCurrentUser ==
    /\ [](is_authenticated(session) <=> (get_current_user(session, users) # None))
    /\ []((slast.navigate \in {Some("/login"), Some("/dashboard")})
            => page(slast.navigate[1], session, users).rendered)
    /\ [](slast.hops <= 1)
    /\ ((slast.navigate # None) ~> slast.rendered)

\* the dashboard rendered after a redirect from /
C27_Witness ==
    /\ slast.op = "page"
    /\ slast.path = "/dashboard"
    /\ slast.hops = 1
    /\ slast.rendered
    /\ slast.pre_session = session

\* C28: a dashboard request never gets an inactive user from
\* require_authentication.
C28_InactiveUserDenied ==
    (slast.op = "page" /\ slast.path = "/dashboard" /\ slast.user # None)
    => slast.user[1].is_active

----------------------------------------------------------------------------
(* Claims about the dashboard (SpecForm) *)

\* C29: a collection stored by a form submit references the photo handed
\* back by the most recent successful upload since the last Change Photo
\* reset or successful submit (flast.recent follows these events), or no
\* photo when there was none; after a successful submit or a reset the form
\* holds no photo id, and a submit that fails leaves the id as it was.
C29_SubmitUsesLatestUpload ==
    /\ uploaded_photo_id = flast.recent
    /\ (flast.op = "handle_form_submit" /\ flast.created # None)
       => flast.created[1].photo_id = flast.pre_recent
    /\ (flast.op = "handle_form_submit" /\ flast.ok)
       => (flast.created # None /\ uploaded_photo_id = None)
    /\ (flast.op = "reset_photo_upload") => uploaded_photo_id = None
    /\ (flast.op = "handle_form_submit" /\ ~flast.ok)
       => uploaded_photo_id = flast.pre_id

\* a submit after two uploads stores the second photo
C29_Witness ==
    /\ flast.op = "handle_form_submit"
    /\ flast.ok
    /\ Len(photos) = 2
    /\ flast.created[1].photo_id = Some(2)
    /\ flast.pre_id = Some(2)

\* C25: no step changes the customer name, description, submission date,
\* owning user, photo reference, location data or device info of a stored
\* collection, and no step removes a stored collection.
C25_ContentFieldsNeverChange ==
    [][/\ Len(collections') >= Len(collections)
       /\ \A i \in DOMAIN collections :
            /\ collections'[i].id = collections[i].id
            /\ collections'[i].customer_name = collections[i].customer_name
            /\ collections'[i].description = collections[i].description
            /\ collections'[i].submission_date = collections[i].submission_date
            /\ collections'[i].user_id = collections[i].user_id
            /\ collections'[i].photo_id = collections[i].photo_id
            /\ collections'[i].location_data = collections[i].location_data
            /\ collections'[i].device_info = collections[i].device_info]_vars

\* a second collection stored next to a first one
C25_Witness ==
    /\ clast.op = "create_collection"
    /\ Len(clast.pre) = 1
    /\ Len(collections) = 2
    /\ collections[1] = clast.pre[1]
    /\ collections[2].photo_id # collections[1].photo_id

============================================================================
